---- MODULE Spec2Model ----
(***************************************************************************)
(* Model of the Ubiquiti mPower switch platform                            *)
(* (homeassistant/components/switch/ubiquiti_mpower.py): the controller    *)
(* MpowerDevice with its lazily opened SSH session, its throttled update() *)
(* that parses the status dump into the state table, and turn_on/turn_off  *)
(* as called through the MpowerOutlet facade.                              *)
(*                                                                         *)
(* Bytes and characters are one-character strings; a byte string is a      *)
(* sequence of them.  "xFF" stands for one byte that is not valid UTF-8.   *)
(* Python's None is "None"; an exception leaving a method is recorded in   *)
(* ret under the exception's name.  Time is counted in seconds.            *)
(*                                                                         *)
(* Spec runs whole invocations one after the other.  ConcSpec runs the     *)
(* methods statement by statement for two calling threads; TwoSpec runs    *)
(* two MpowerDevice objects side by side.                                  *)
(***************************************************************************)
EXTENDS Integers, Sequences, FiniteSets, TLC

VARIABLES
    ssh,        \* MpowerDevice._ssh: "None", or a pxssh object, "alive" or "dead" by its isalive()
    states,     \* MpowerDevice._states: outlet key -> (metric name -> value string)
    throttle,   \* Throttle's record of update: [ran |-> it has a last-run timestamp,
                \*   elapsed |-> the seconds since that timestamp]
    op,         \* the last step: "__init__", "update", "turn_on", "turn_off", "return",
                \*   "tick", "die"
    arg,        \* device_number of the last turn_on/turn_off ("None" otherwise)
    ret,        \* how the last invocation ended: its return value or the exception raised
    sent,       \* the command lines the last invocation passed to sendline
    logins,     \* the number of pxssh() objects created and logged in by the last invocation
    loginResult,\* what login did in the last invocation ("None": it was not called)
    effective,  \* the last update() invocation ran its body (was not throttled)
    before,     \* the bytes prompt() left in _ssh.before for the last update (<<>>: none read)
    ioResult,   \* what sendline/prompt did in the last invocation ("None": they were not called)
    sinceCall,  \* seconds since the latest update() invocation (Saturated: none, or long ago)
    pc,         \* for each calling thread: the method it is in, for which device_number, and
                \*   where in it ("idle": in none)
    inflight,   \* the commands passed to sendline whose prompt() call has not returned
    other,      \* a second MpowerDevice: [ssh, states, throttle]
    actor       \* the MpowerDevice the last step was on, "this" or "other" ("None": on neither)

vars == <<ssh, states, throttle, op, arg, ret, sent, logins, loginResult, effective, before,
          ioResult, sinceCall, pc, inflight, other, actor>>

\* the variables of the calling threads and of the second MpowerDevice
aux == <<pc, inflight, other, actor>>

----------------------------------------------------------------------------
(* Program constants *)

CMD_POWER_STATUS ==
    "cd /proc/power;grep '' pf* relay* v_rms* active_pwr* i_rms* energy_sum*"

\* CMD_RELAY.format(state, device_number); state is the integer 1 or 0
CMD_RELAY(state, device_number) ==
    "echo " \o (IF state = 1 THEN "1" ELSE "0") \o " > /proc/power/relay" \o device_number

\* timedelta(seconds=5)
MIN_TIME_BETWEEN_UPDATES == 5

\* elapsed times of the interval and beyond are not told apart: the throttle
\* only asks whether less than MIN_TIME_BETWEEN_UPDATES has elapsed
Saturated == MIN_TIME_BETWEEN_UPDATES

----------------------------------------------------------------------------
(* Characters *)

\* [a-z_]
Lower ==
    {"a", "b", "c", "d", "e", "f", "g", "h", "i", "j", "k", "l", "m", "n",
     "o", "p", "q", "r", "s", "t", "u", "v", "w", "x", "y", "z", "_"}

\* \d (the ASCII digits)
Digit == {"0", "1", "2", "3", "4", "5", "6", "7", "8", "9"}

\* a byte that no UTF-8 text contains
InvalidByte == "xFF"

RECURSIVE Str(_)
\* the string made of the characters of s
Str(s) == IF s = <<>> THEN "" ELSE Head(s) \o Str(Tail(s))

----------------------------------------------------------------------------
(* The helpers of update(): bytes.split, the [1:-1] slice, decode, replace, re.match *)

RECURSIVE SplitFrom(_, _, _)
\* the pieces of b[i..] between separators, cur being the piece collected so far
SplitFrom(b, i, cur) ==
    IF i > Len(b) THEN <<cur>>
    ELSE IF b[i] = "\n" THEN <<cur>> \o SplitFrom(b, i + 1, <<>>)
    ELSE SplitFrom(b, i + 1, Append(cur, b[i]))

\* b.split(b'\n'): one piece more than there are separators
Split(b) == SplitFrom(b, 1, <<>>)

\* parts[2:-1]: one line too many is dropped at the front
PowerData_SkipsTwo(b) ==
    LET parts == Split(b)
    IN  IF Len(parts) <= 3 THEN <<>> ELSE SubSeq(parts, 3, Len(parts) - 1)

\* parts[1:-1]: all but the first and the last element
PowerData(b) ==
    LET parts == Split(b)
    IN  IF Len(parts) <= 2 THEN <<>> ELSE SubSeq(parts, 2, Len(parts) - 1)

\* power_line.decode('utf-8') raises UnicodeDecodeError on an invalid byte
Decodes(line) == \A i \in 1..Len(line) : line[i] # InvalidByte

\* .replace('\r', ''): every carriage return is removed
CleanResult(line) == SelectSeq(line, LAMBDA c : c # "\r")

RECURSIVE Run(_, _, _)
\* the number of characters of s from position i on that are in class
Run(s, i, class) ==
    IF i <= Len(s) /\ s[i] \in class THEN 1 + Run(s, i + 1, class) ELSE 0

\* (\d+|\d+\.\d+)$ on the whole of s
IsNumber(s) ==
    LET n == Run(s, 1, Digit)
    IN  /\ n >= 1
        /\ \/ n = Len(s)
           \/ /\ n + 1 < Len(s)
              /\ s[n + 1] = "."
              /\ Run(s, n + 2, Digit) = Len(s) - (n + 1)

\* re.match(r'^([a-z_]+)(\d+):(\d+|\d+\.\d+)$', s): whether it matched, and match.groups()
Match(s) ==
    LET n1 == Run(s, 1, Lower)
        n2 == Run(s, n1 + 1, Digit)
        rest == SubSeq(s, n1 + n2 + 2, Len(s))
    IN  IF /\ n1 >= 1
           /\ n2 >= 1
           /\ n1 + n2 + 1 <= Len(s)
           /\ s[n1 + n2 + 1] = ":"
           /\ IsNumber(rest)
        THEN [matched |-> TRUE,
              groups |-> <<Str(SubSeq(s, 1, n1)), Str(SubSeq(s, n1 + 1, n1 + n2)), Str(rest)>>]
        ELSE [matched |-> FALSE, groups |-> <<>>]

----------------------------------------------------------------------------
(* What the device and the network may do *)

\* the outlets the facades are made for
DeviceNumbers == {"1", "2"}

\* the most lines a status dump has between its first and its last
MaxMid == 2

EchoLine == <<"m", "*", "\r">>

\* the first line of a response: the echo of the command, or already a reading
FirstLines == {EchoLine, <<"r", "e", "l", "a", "y", "2", ":", "1", "\r">>}

\* what follows the last newline: nothing, or a reading without its newline
LastLines == {<<>>, <<"p", "f", "1", ":", "0", ".", "5">>}

\* the lines in between: readings, a blank line, a malformed reading, garbage
MidLines ==
    { <<"r", "e", "l", "a", "y", "1", ":", "1", "\r">>,
      <<"r", "e", "l", "a", "y", "1", ":", "0">>,
      <<"r", "e", "l", "a", "y", "1", ":", "2", "\r">>,
      <<"p", "f", "2", ":", "0", ".", "5", "\r">>,
      <<"p", "f", "2", ":", ".", "5", "\r">>,
      <<"\r">>,
      <<"g", InvalidByte, "\r">> }

RECURSIVE Join(_)
\* b'\n'.join(lines)
Join(lines) ==
    IF Len(lines) = 1 THEN lines[1] ELSE lines[1] \o <<"\n">> \o Join(Tail(lines))

\* the texts prompt() may leave in before after the status dump
Responses ==
    {Join(<<f>>) : f \in FirstLines}
    \cup {Join(<<f>> \o mid \o <<l>>) :
            f \in FirstLines, l \in LastLines,
            mid \in UNION {[1..n -> MidLines] : n \in 0..MaxMid}}

\* decode and re.match on one line of power_data; neither looks at the table
LineResult(line) ==
    IF Decodes(line)
    THEN [decodes |-> TRUE, match |-> Match(CleanResult(line))]
    ELSE [decodes |-> FALSE, match |-> [matched |-> FALSE, groups |-> <<>>]]

RECURSIVE Scan(_)
Scan(lines) ==
    IF lines = <<>> THEN <<>> ELSE <<LineResult(Head(lines))>> \o Scan(Tail(lines))

\* power_data of every text that may be in before, its lines decoded and
\* matched: worked out once for all tables
Scanned == [b \in Responses \cup {<<>>} |-> Scan(PowerData(b))]

----------------------------------------------------------------------------
(* MpowerDevice *)

EmptyDict == <<>>

\* d[k] = v on a dict: the key is added when new, its value replaced otherwise
SetItem(d, k, v) == [x \in DOMAIN d \cup {k} |-> IF x = k THEN v ELSE d[x]]

\* what pxssh.login does: returns, or raises EOF or ExceptionPxssh
LoginOutcomes == {"ok", "EOF", "ExceptionPxssh"}

\* what sendline/prompt do on a session: return, raise EOF when the peer is
\* gone, or, "TIMEOUT", prompt() returns False because no prompt came in time;
\* its result is not looked at
IoOutcomes == {"ok", "EOF", "TIMEOUT"}

NeedsLogin(s) == s = "None" \/ s = "dead"

\* _connect() without its except clauses' self._ssh = None: the pxssh object
\* whose login failed stays in _ssh
Connect_KeepsPartial(s, login) ==
    IF NeedsLogin(s)
    THEN [ssh |-> IF login = "ok" THEN "alive" ELSE "dead", logins |-> 1, result |-> login]
    ELSE [ssh |-> s, logins |-> 0, result |-> "None"]

\* _connect() without the test of self._ssh: it logs in on every call
Connect_AlwaysLogin(s, login) ==
    [ssh |-> IF login = "ok" THEN "alive" ELSE "None", logins |-> 1, result |-> login]

\* _connect() that tries a second login when the first one fails
Connect_Retries(s, login) ==
    IF NeedsLogin(s)
    THEN [ssh |-> IF login = "ok" THEN "alive" ELSE "None",
          logins |-> IF login = "ok" THEN 1 ELSE 2, result |-> login]
    ELSE [ssh |-> s, logins |-> 0, result |-> "None"]

\* _connect(): the new _ssh, the number of logins made and how the login
\* ended, given what login does
Connect(s, login) ==
    IF NeedsLogin(s)
    THEN [ssh |-> IF login = "ok" THEN "alive" ELSE "None", logins |-> 1, result |-> login]
    ELSE [ssh |-> s, logins |-> 0, result |-> "None"]

\* the loop body rebuilding the table from the line: self._states = {key: {...}}
Upsert_Forgets(st, groups) ==
    LET key == groups[2]
        d == IF key \in DOMAIN st THEN st[key] ELSE EmptyDict
    IN  SetItem(EmptyDict, key, SetItem(d, groups[1], groups[3]))

\* the loop body adding the text to the value already there (+= for =)
Upsert_Appends(st, groups) ==
    LET key == groups[2]
        d == IF key \in DOMAIN st THEN st[key] ELSE EmptyDict
        old == IF groups[1] \in DOMAIN d THEN d[groups[1]] ELSE ""
    IN  SetItem(st, key, SetItem(d, groups[1], old \o groups[3]))

\* the body of the for loop for one matching line
Upsert(st, groups) ==
    LET key == groups[2]
        d == IF key \in DOMAIN st THEN st[key] ELSE EmptyDict
    IN  SetItem(st, key, SetItem(d, groups[1], groups[3]))

RECURSIVE ParseLines(_, _)
\* the for loop over power_data, given what decode and re.match make of each
\* line: the table it leaves and the exception it ends with
ParseLines(st, lines) ==
    IF lines = <<>> THEN [states |-> st, exc |-> "None"]
    ELSE IF ~Head(lines).decodes THEN [states |-> st, exc |-> "UnicodeDecodeError"]
    ELSE LET match == Head(lines).match
         IN  IF match.matched /\ Len(match.groups) = 3
             THEN ParseLines(Upsert(st, match.groups), Tail(lines))
             ELSE ParseLines(st, Tail(lines))

\* is_on of the outlet facade; KeyError when the table lacks the key or the metric
IsOn(st, device_number) ==
    IF device_number \in DOMAIN st /\ "relay" \in DOMAIN st[device_number]
    THEN IF st[device_number]["relay"] = "1" THEN "True" ELSE "False"
    ELSE "KeyError"

\* _switch_state without the test of self._ssh: it reports success although
\* no session was obtained
SwitchState_NoCheck(s, state, device_number, login, io) ==
    LET conn == Connect(s, login)
    IN  [ssh |-> conn.ssh, conn |-> conn, sent |-> <<>>, ret |-> "True"]

\* _switch_state(state, device_number): the new _ssh, the command sent, and
\* the value returned or the exception raised
SwitchState(s, state, device_number, login, io) ==
    LET conn == Connect(s, login)
        cmd == CMD_RELAY(state, device_number)
    IN  IF conn.ssh # "None"
        THEN IF io # "EOF"
             THEN [ssh |-> conn.ssh, conn |-> conn, sent |-> <<cmd>>, ret |-> "True"]
             ELSE [ssh |-> "dead", conn |-> conn, sent |-> <<cmd>>, ret |-> "EOF"]
        ELSE [ssh |-> conn.ssh, conn |-> conn, sent |-> <<>>, ret |-> "False"]

\* turn_on/turn_off creating the outlet's map when the table lacks it
\* (setdefault(device_number, {})['relay'] = value)
SetRelay_AddsKey(st, device_number, value) ==
    LET d == IF device_number \in DOMAIN st THEN st[device_number] ELSE EmptyDict
    IN  [states |-> SetItem(st, device_number, SetItem(d, "relay", value)), exc |-> "None"]

\* turn_on/turn_off leaving the table to the next refresh
SetRelay_NoWrite(st, device_number, value) ==
    IF device_number \in DOMAIN st
    THEN [states |-> st, exc |-> "None"]
    ELSE [states |-> st, exc |-> "KeyError"]

\* turn_on/turn_off replacing the outlet's map: self._states[device_number] = {'relay': value}
SetRelay_Resets(st, device_number, value) ==
    IF device_number \in DOMAIN st
    THEN [states |-> SetItem(st, device_number, SetItem(EmptyDict, "relay", value)),
          exc |-> "None"]
    ELSE [states |-> st, exc |-> "KeyError"]

\* self._states[device_number]['relay'] = value: the new table and the
\* exception raised (KeyError when the table has no such device_number)
SetRelay(st, device_number, value) ==
    IF device_number \in DOMAIN st
    THEN [states |-> SetItem(st, device_number, SetItem(st[device_number], "relay", value)),
          exc |-> "None"]
    ELSE [states |-> st, exc |-> "KeyError"]

\* update() that empties the table when no session was obtained
UpdateBody_ClearsOnFailure(s, st, login, io, response) ==
    LET conn == Connect(s, login)
    IN  IF conn.ssh # "None"
        THEN IF io # "EOF"
             THEN LET parsed == ParseLines(st, Scanned[response])
                  IN  [ssh |-> conn.ssh, conn |-> conn, sent |-> <<CMD_POWER_STATUS>>,
                       before |-> response, states |-> parsed.states, ret |-> parsed.exc]
             ELSE [ssh |-> "dead", conn |-> conn, sent |-> <<CMD_POWER_STATUS>>,
                   before |-> <<>>, states |-> st, ret |-> "EOF"]
        ELSE [ssh |-> conn.ssh, conn |-> conn, sent |-> <<>>,
              before |-> <<>>, states |-> EmptyDict, ret |-> "None"]

\* the body of update(): _connect, the status dump, the parsing loop
UpdateBody(s, st, login, io, response) ==
    LET conn == Connect(s, login)
    IN  IF conn.ssh # "None"
        THEN IF io # "EOF"
             THEN LET parsed == ParseLines(st, Scanned[response])
                  IN  [ssh |-> conn.ssh, conn |-> conn, sent |-> <<CMD_POWER_STATUS>>,
                       before |-> response, states |-> parsed.states, ret |-> parsed.exc]
             ELSE [ssh |-> "dead", conn |-> conn, sent |-> <<CMD_POWER_STATUS>>,
                   before |-> <<>>, states |-> st, ret |-> "EOF"]
        ELSE [ssh |-> conn.ssh, conn |-> conn, sent |-> <<>>,
              before |-> <<>>, states |-> st, ret |-> "None"]

\* Throttle(MIN_TIME_BETWEEN_UPDATES): a call arriving sooner than the interval
\* after the last run is not passed on to the method
Throttled(t) == t.ran /\ t.elapsed < MIN_TIME_BETWEEN_UPDATES

----------------------------------------------------------------------------
(* The operations *)

\* the threads of the host that call into the platform
Threads == {"t1", "t2"}

\* a thread that is in no method
NotCalling == [at |-> "idle", method |-> "None", device_number |-> "None"]

\* MpowerDevice.__init__
Init ==
    /\ ssh = "None"
    /\ states = EmptyDict
    /\ throttle = [ran |-> FALSE, elapsed |-> 0]
    /\ op = "__init__"
    /\ arg = "None"
    /\ ret = "None"
    /\ sent = <<>>
    /\ logins = 0
    /\ loginResult = "None"
    /\ effective = FALSE
    /\ before = <<>>
    /\ ioResult = "None"
    /\ sinceCall = Saturated
    /\ pc = [t \in Threads |-> NotCalling]
    /\ inflight = 0
    /\ other = [ssh |-> "None", states |-> EmptyDict, throttle |-> [ran |-> FALSE, elapsed |-> 0]]
    /\ actor = "None"

\* no invocation is under way: the caller has taken the result of the last one
Idle == op \notin {"update", "turn_on", "turn_off"}

\* the call is passed on to update(): _connect, the status dump, the parsing
RunUpdate ==
    \E login \in (IF NeedsLogin(ssh) THEN LoginOutcomes ELSE {"ok"}), io \in IoOutcomes :
        \E response \in (IF login = "ok" /\ io = "ok" THEN Responses ELSE {<<>>}) :
            \E r \in {UpdateBody(ssh, states, login, io, response)} :
                /\ ioResult' = IF r.sent = <<>> THEN "None" ELSE io
                /\ effective' = TRUE
                /\ throttle' = [ran |-> TRUE, elapsed |-> 0]
                /\ ssh' = r.ssh
                /\ states' = r.states
                /\ ret' = r.ret
                /\ sent' = r.sent
                /\ logins' = r.conn.logins
                /\ loginResult' = r.conn.result
                /\ before' = r.before

\* the call is not passed on: the wrapper returns None
SkipUpdate ==
    /\ effective' = FALSE
    /\ ret' = "None"
    /\ sent' = <<>>
    /\ logins' = 0
    /\ loginResult' = "None"
    /\ before' = <<>>
    /\ ioResult' = "None"
    /\ UNCHANGED <<ssh, states, throttle>>

\* update() without its @Throttle decorator
Update_NoThrottle ==
    /\ Idle
    /\ op' = "update"
    /\ arg' = "None"
    /\ sinceCall' = 0
    /\ RunUpdate
    /\ UNCHANGED aux

\* MpowerOutlet.update -> MpowerDevice.update under @Throttle
Update ==
    /\ Idle
    /\ op' = "update"
    /\ arg' = "None"
    /\ sinceCall' = 0
    /\ IF Throttled(throttle) THEN SkipUpdate ELSE RunUpdate
    /\ UNCHANGED aux

\* turn_on / turn_off of the controller for one device_number
Turn(name, state, value, device_number) ==
    /\ Idle
    /\ \E login \in (IF NeedsLogin(ssh) THEN LoginOutcomes ELSE {"ok"}), io \in IoOutcomes :
          \E switched \in {SwitchState(ssh, state, device_number, login, io)},
          set \in {SetRelay(states, device_number, value)} :
               /\ op' = name
               /\ arg' = device_number
               /\ ssh' = switched.ssh
               /\ sent' = switched.sent
               /\ ioResult' = IF switched.sent = <<>> THEN "None" ELSE io
               /\ logins' = switched.conn.logins
               /\ loginResult' = switched.conn.result
               /\ IF switched.ret = "True"
                  THEN /\ states' = set.states
                       /\ ret' = IF set.exc = "None" THEN "True" ELSE set.exc
                  ELSE /\ states' = states
                       /\ ret' = switched.ret
               /\ effective' = FALSE
               /\ before' = <<>>
               /\ UNCHANGED <<throttle, sinceCall, aux>>

\* MpowerOutlet.turn_on -> MpowerDevice.turn_on
TurnOn == \E device_number \in DeviceNumbers : Turn("turn_on", 1, "1", device_number)

\* turn_off writing the value of turn_on
TurnOff_WritesOne == \E device_number \in DeviceNumbers : Turn("turn_off", 0, "1", device_number)

\* MpowerOutlet.turn_off -> MpowerDevice.turn_off
TurnOff == \E device_number \in DeviceNumbers : Turn("turn_off", 0, "0", device_number)

\* the caller takes the result of the invocation
Return ==
    /\ ~Idle
    /\ op' = "return"
    /\ arg' = "None"
    /\ ret' = "None"
    /\ sent' = <<>>
    /\ logins' = 0
    /\ loginResult' = "None"
    /\ effective' = FALSE
    /\ before' = <<>>
    /\ ioResult' = "None"
    /\ UNCHANGED <<ssh, states, throttle, sinceCall, aux>>

Later(n) == IF n < Saturated THEN n + 1 ELSE n

\* a second passes
Tick ==
    /\ throttle' = [throttle EXCEPT !.elapsed = IF throttle.ran THEN Later(@) ELSE @]
    /\ sinceCall' = Later(sinceCall)
    /\ op' = "tick"
    /\ arg' = "None"
    /\ ret' = "None"
    /\ sent' = <<>>
    /\ logins' = 0
    /\ loginResult' = "None"
    /\ effective' = FALSE
    /\ before' = <<>>
    /\ ioResult' = "None"
    /\ UNCHANGED <<ssh, states, aux>>

\* the connection of the open session is lost: isalive() turns false
Die ==
    /\ ssh = "alive"
    /\ ssh' = "dead"
    /\ op' = "die"
    /\ arg' = "None"
    /\ ret' = "None"
    /\ sent' = <<>>
    /\ logins' = 0
    /\ loginResult' = "None"
    /\ effective' = FALSE
    /\ before' = <<>>
    /\ ioResult' = "None"
    /\ UNCHANGED <<states, throttle, sinceCall, aux>>

Next == Update \/ TurnOn \/ TurnOff \/ Return \/ Tick \/ Die

Spec == Init /\ [][Next]_vars

----------------------------------------------------------------------------
(* Properties *)

Calls == {"update", "turn_on", "turn_off"}

IsTurn(o) == o \in {"turn_on", "turn_off"}

\* the relay value a turn_on / turn_off asks for
Requested(o) == IF o = "turn_on" THEN "1" ELSE "0"

\* the invocation ran the method's body: every turn_on/turn_off, and the
\* update() calls that were not throttled
RanBody(o, eff) == IsTurn(o) \/ (o = "update" /\ eff)

Raised(r) == r \in {"KeyError", "EOF", "UnicodeDecodeError"}

\* C1: a turn_on/turn_off for any key, in the table or not, made while a
\* session can be obtained (and the command goes through) ends with
\* states[key]["relay"] at the requested value and returns True.
C1_SetRelaySucceeds ==
    (IsTurn(op) /\ ssh = "alive" /\ ret # "EOF")
        => /\ ret = "True"
           /\ arg \in DOMAIN states
           /\ "relay" \in DOMAIN states[arg]
           /\ states[arg]["relay"] = Requested(op)

\* C2: a turn_on/turn_off during which the login fails returns False, sends
\* no command and leaves the whole table as it was.
C2_NoSessionNoChange ==
    [][ (IsTurn(op') /\ loginResult' \in {"EOF", "ExceptionPxssh"})
            => /\ ret' = "False"
               /\ sent' = <<>>
               /\ states' = states ]_vars

\* a turn_on/turn_off on a filled table failed to log in
C2_Witness ==
    /\ IsTurn(op)
    /\ loginResult \in {"EOF", "ExceptionPxssh"}
    /\ ret = "False"
    /\ arg \in DOMAIN states

\* an update() call that did nothing: no login, nothing sent, table and
\* session as before, None returned
NoOpUpdate ==
    /\ ~effective'
    /\ logins' = 0
    /\ sent' = <<>>
    /\ states' = states
    /\ ssh' = ssh
    /\ ret' = "None"

\* C3 as stated: an update() invoked less than MIN_TIME_BETWEEN_UPDATES after
\* the update() invocation before it is a pure no-op.
C3_SecondCallNoOp ==
    [][ (op' = "update" /\ sinceCall < MIN_TIME_BETWEEN_UPDATES) => NoOpUpdate ]_vars

\* C3 amended: an update() invoked less than MIN_TIME_BETWEEN_UPDATES after
\* the last update() that was not throttled is a pure no-op.
C3_ThrottledNoOp ==
    [][ (op' = "update" /\ throttle.ran /\ throttle.elapsed < MIN_TIME_BETWEEN_UPDATES)
            => NoOpUpdate ]_vars

\* a throttled update() on a controller with a live session and a filled table
C3_Witness ==
    /\ op = "update"
    /\ ~effective
    /\ throttle.ran
    /\ throttle.elapsed > 0
    /\ throttle.elapsed < MIN_TIME_BETWEEN_UPDATES
    /\ ssh = "alive"
    /\ states # EmptyDict

\* C4: an update() that is not throttled and fails to log in sends nothing
\* and leaves the table as it was.
C4_FailedRefreshKeepsTable ==
    [][ (op' = "update" /\ effective' /\ loginResult' \in {"EOF", "ExceptionPxssh"})
            => /\ sent' = <<>>
               /\ states' = states ]_vars

\* an effective update() on a filled table failed to log in
C4_Witness ==
    /\ op = "update"
    /\ effective
    /\ loginResult \in {"EOF", "ExceptionPxssh"}
    /\ states # EmptyDict

\* C5: whatever the logins do, no update(), turn_on or turn_off ends by
\* raising (the transport failing under a sent command and an undecodable
\* dump are not patterns of login success and failure and are left aside).
C5_NoInvocationRaises ==
    (op \in Calls /\ ret \notin {"EOF", "UnicodeDecodeError"}) => ~Raised(ret)

\* C6: a login that fails with EOF or ExceptionPxssh raises nothing and
\* leaves _ssh None, and the next invocation that runs logs in afresh.
C6_FailedLoginClearsSession ==
    [][ /\ (op' \in Calls /\ loginResult' \in {"EOF", "ExceptionPxssh"})
            => (ssh' = "None" /\ ~Raised(ret'))
        /\ (ssh = "None" /\ RanBody(op', effective')) => logins' = 1 ]_vars

\* a login failed on a controller that had read the device before
C6_Witness ==
    /\ op \in Calls
    /\ loginResult = "ExceptionPxssh"
    /\ ssh = "None"
    /\ states # EmptyDict

\* C7: __init__ opens no session; a login happens only when _ssh is None or
\* not alive; on a live session the command is sent without any login.
C7_LazyReusedSession ==
    /\ [](op = "__init__" => (ssh = "None" /\ logins = 0))
    /\ [][ /\ (op' \in Calls /\ logins' > 0) => NeedsLogin(ssh)
           /\ (ssh = "alive" /\ RanBody(op', effective'))
                => /\ logins' = 0
                   /\ loginResult' = "None"
                   /\ Len(sent') = 1
                   /\ ssh' \in {"alive", "dead"} ]_vars

\* a command went out on the session an earlier invocation had opened
C7_Witness ==
    /\ op \in Calls
    /\ logins = 0
    /\ Len(sent) = 1
    /\ ssh = "alive"

\* C8: an invocation that runs logs in exactly once when _ssh is None or not
\* alive, and never more than once, also when the login fails.
C8_OneConnectAttempt ==
    [][ RanBody(op', effective')
            => /\ logins' <= 1
               /\ NeedsLogin(ssh) => logins' = 1 ]_vars

\* a failed login was not tried again
C8_Witness ==
    /\ op = "update"
    /\ effective
    /\ loginResult = "EOF"
    /\ logins = 1

----------------------------------------------------------------------------
(* The status dump, stated without the parsing operators above *)

\* the positions of the newlines of b, in order
Breaks(b) == SelectSeq([i \in 1..Len(b) |-> i], LAMBDA i : b[i] = "\n")

NumLines(b) == Len(Breaks(b)) + 1

\* the n-th line of b, without its newline: what lies between the (n-1)-th
\* newline (or the start) and the n-th (or the end)
LineAt(b, n) ==
    LET brk == <<0>> \o Breaks(b) \o <<Len(b) + 1>>
    IN  SubSeq(b, brk[n] + 1, brk[n + 1] - 1)

\* the line as text, its carriage returns dropped
Text(line) == SelectSeq(line, LAMBDA c : c # "\r")

IsUtf8(line) == \A i \in 1..Len(line) : line[i] # InvalidByte

AllIn(t, class) == \A i \in 1..Len(t) : t[i] \in class

\* digits, or digits "." digits
IsDecimal(t) ==
    /\ t # <<>>
    /\ \/ AllIn(t, Digit)
       \/ \E p \in 2..(Len(t) - 1) :
            /\ t[p] = "."
            /\ AllIn(SubSeq(t, 1, p - 1), Digit)
            /\ AllIn(SubSeq(t, p + 1, Len(t)), Digit)

\* the ways to cut text t into <letters/underscores><digits>:<decimal number>:
\* <<i, j>> where the name is t[1..i], the outlet t[i+1..j] and t[j+1] the colon
Cuts(t) ==
    { q \in UNION { {<<i, c - 1>> : i \in 1..(c - 2)} : c \in {c \in 1..Len(t) : t[c] = ":"} } :
        /\ AllIn(SubSeq(t, 1, q[1]), Lower)
        /\ AllIn(SubSeq(t, q[1] + 1, q[2]), Digit)
        /\ IsDecimal(SubSeq(t, q[2] + 2, Len(t))) }

\* the readings <<metric, outlet, value>> that text t is, when it has the
\* form <lowercase letters/underscores><digits>:<decimal number>
Readings(t) ==
    { <<Str(SubSeq(t, 1, q[1])), Str(SubSeq(t, q[1] + 1, q[2])),
        Str(SubSeq(t, q[2] + 2, Len(t)))>> : q \in Cuts(t) }

\* the readings of the n-th line of b
ReadingsAt(b, n) == IF IsUtf8(LineAt(b, n)) THEN Readings(Text(LineAt(b, n))) ELSE {}

\* the pairs <<n, reading of the n-th line of b>> for the lines numbered in scope
ReadingsIn(b, scope) == UNION { {<<n, rd>> : rd \in ReadingsAt(b, n)} : n \in scope }

\* table st holds reading rd
Holds(st, rd) ==
    /\ rd[2] \in DOMAIN st
    /\ rd[1] \in DOMAIN st[rd[2]]
    /\ st[rd[2]][rd[1]] = rd[3]

\* every reading among the numbered readings rds that no later one of them
\* overrides is in table st
LastWins(st, rds) ==
    \A x \in rds :
        (\A y \in rds : y[1] > x[1] => ~(y[2][1] = x[2][1] /\ y[2][2] = x[2][2]))
        => Holds(st, x[2])

\* the lines update() gets to: not the first, not what follows the last
\* newline, and none from the first line on that is not UTF-8
Processed(b) ==
    LET inner == 2..(NumLines(b) - 1)
        bad == {n \in inner : ~IsUtf8(LineAt(b, n))}
    IN  {n \in inner : \A u \in bad : n < u}

\* for every text that may be in before: the numbered readings of the lines
\* update() gets to
ProcessedReadings == [b \in Responses \cup {<<>>} |-> ReadingsIn(b, Processed(b))]

\* the last invocation was an update() that read a status dump
ReadDump(o, eff, snt, r) == o = "update" /\ eff /\ snt # <<>> /\ r # "EOF"

C10_NonMatchingIgnored ==
    [][ ReadDump(op', effective', sent', ret')
            => /\ ret' = "None"
               /\ \A rds \in {ReadingsIn(before', 1..NumLines(before'))} :
                    \A k \in DOMAIN states' : \A m \in DOMAIN states'[k] :
                        (k \notin DOMAIN states \/ m \notin DOMAIN states[k]
                            \/ states[k][m] # states'[k][m])
                        => \E x \in rds : x[2] = <<m, k, states'[k][m]>> ]_vars

----------------------------------------------------------------------------
(* The table over time *)

\* table st has a relay entry for outlet k
HasRelay(st, k) == k \in DOMAIN st /\ "relay" \in DOMAIN st[k]

\* the relay entry of outlet k differs in tables st and st2, or only st2 has one
RelayWritten(st, st2, k) ==
    HasRelay(st2, k) /\ (~HasRelay(st, k) \/ st[k]["relay"] # st2[k]["relay"])

\* C11: no step takes an outlet key out of the table.
C11_KeysNeverShrink ==
    [][ DOMAIN states \subseteq DOMAIN states' ]_vars

\* an update() read a dump on a table that holds both outlets
C11_Witness ==
    /\ ReadDump(op, effective, sent, ret)
    /\ DOMAIN states = {"1", "2"}
    /\ \E n \in Processed(before) : ReadingsAt(before, n) # {}

\* C12 as stated: every relay entry of the table is "0" or "1".
C12_RelayIsBit ==
    \A k \in DOMAIN states : "relay" \in DOMAIN states[k] => states[k]["relay"] \in {"0", "1"}

\* C12 amended: a relay entry is written either by a turn_on/turn_off that
\* returns True, as "1"/"0", or by an update() as the value text of a relay
\* line of the dump it read.
C12_RelayWrites ==
    [][ \A k \in DOMAIN states' :
          RelayWritten(states, states', k)
            => \/ /\ IsTurn(op') /\ ret' = "True" /\ arg' = k
                  /\ states'[k]["relay"] = Requested(op')
               \/ /\ ReadDump(op', effective', sent', ret')
                  /\ \E x \in ProcessedReadings[before'] :
                        x[2] = <<"relay", k, states'[k]["relay"]>> ]_vars

\* an update() stored the text of a relay line that is neither "0" nor "1"
C12_Witness ==
    /\ ReadDump(op, effective, sent, ret)
    /\ HasRelay(states, "1")
    /\ states["1"]["relay"] = "2"

\* the strings of one or two decimal digits
DigitStrings == {d : d \in Digit} \cup {d1 \o d2 : d1 \in Digit, d2 \in Digit}

\* C13: every key of the table is a string of decimal digits; a key enters
\* the table only in an update(), as the outlet index of a line of the dump
\* it read, and never in a turn_on/turn_off.
C13_KeysFromDump ==
    /\ [](DOMAIN states \subseteq DigitStrings)
    /\ [][ /\ IsTurn(op') => DOMAIN states' = DOMAIN states
           /\ \A k \in DOMAIN states' \ DOMAIN states :
                /\ ReadDump(op', effective', sent', ret')
                /\ \E x \in ProcessedReadings[before'] : x[2][2] = k ]_vars

\* a turn_on/turn_off for an outlet the table lacks went through and the key
\* is still not there
C13_Witness ==
    /\ IsTurn(op)
    /\ Len(sent) = 1
    /\ ret = "KeyError"
    /\ arg \notin DOMAIN states
    /\ states # EmptyDict

\* C14: parsing the text an update() has just parsed once more leaves the
\* table as it is.
C14_ParseIdempotent ==
    ReadDump(op, effective, sent, ret)
        => ParseLines(states, Scanned[before]).states = states

\* an update() got to two lines of its dump, both of them readings, and the
\* table has a relay entry for outlet 1
C14_Witness ==
    /\ ReadDump(op, effective, sent, ret)
    /\ ret = "None"
    /\ Cardinality(Processed(before)) = 2
    /\ \A n \in Processed(before) : ReadingsAt(before, n) # {}
    /\ HasRelay(states, "1")

\* C15: a turn_on/turn_off that returns True has sent the relay command for
\* its outlet and nothing else, and is_on is then True after turn_on and
\* False after turn_off; a throttled update() leaves is_on of every outlet as
\* it was, and the relay entry of an outlet changes only in a turn_on/turn_off
\* for that outlet or in an update() that read a relay line for it.
C15_OptimisticWrite ==
    [][ /\ (IsTurn(op') /\ ret' = "True")
            => /\ sent' = <<CMD_RELAY(IF op' = "turn_on" THEN 1 ELSE 0, arg')>>
               /\ IsOn(states', arg') = (IF op' = "turn_on" THEN "True" ELSE "False")
        /\ (op' = "update" /\ ~effective')
            => \A k \in DeviceNumbers : IsOn(states', k) = IsOn(states, k)
        /\ \A k \in DOMAIN states' :
            RelayWritten(states, states', k)
                => \/ IsTurn(op') /\ arg' = k
                   \/ /\ ReadDump(op', effective', sent', ret')
                      /\ \E x \in ProcessedReadings[before'] :
                            x[2][1] = "relay" /\ x[2][2] = k ]_vars

\* turn_on for outlet 1 returned True and is_on answers True
C15_Witness ==
    /\ op = "turn_on"
    /\ ret = "True"
    /\ IsOn(states, arg) = "True"
    /\ sent = <<"echo 1 > /proc/power/relay1">>

\* C16: the table changes only in an update() that read a dump or in a
\* turn_on/turn_off that returns True, and such a turn_on/turn_off changes
\* nothing but the relay entry of its outlet.
C16_Frame ==
    [][ /\ states' # states
            => ReadDump(op', effective', sent', ret') \/ (IsTurn(op') /\ ret' = "True")
        /\ (IsTurn(op') /\ ret' = "True")
            => /\ DOMAIN states' = DOMAIN states
               /\ \A k \in DOMAIN states : k # arg' => states'[k] = states[k]
               /\ DOMAIN states'[arg'] = DOMAIN states[arg'] \cup {"relay"}
               /\ \A m \in DOMAIN states[arg'] : m # "relay" => states'[arg'][m] = states[arg'][m] ]_vars

\* a turn_on/turn_off went through for an outlet that has another metric,
\* next to another outlet
C16_Witness ==
    /\ IsTurn(op)
    /\ ret = "True"
    /\ arg = "2"
    /\ "pf" \in DOMAIN states["2"]
    /\ "1" \in DOMAIN states

----------------------------------------------------------------------------
(* Failures and the session *)

\* the last invocation met a failure: its login raised, or its sendline/prompt
\* raised or timed out
Failed == loginResult \in {"EOF", "ExceptionPxssh"} \/ ioResult \in {"EOF", "TIMEOUT"}

\* C17: after an invocation that met a failure, and after the session died,
\* the session is absent or not alive, so that the next invocation logs in
\* again.
C17_FailureInvalidatesSession ==
    /\ [][ ((op' \in Calls /\ Failed') \/ op' = "die") => NeedsLogin(ssh') ]_vars
    /\ [][ (NeedsLogin(ssh) /\ RanBody(op', effective')) => logins' = 1 ]_vars

----------------------------------------------------------------------------
(* Callers that do not wait for each other: the methods step by step *)

\* the record of the last invocation, which the steps below do not keep
ghost == <<op, arg, ret, sent, logins, loginResult, effective, before, ioResult, sinceCall>>

\* a dump of one relay line after the echo of the command
ShortResponses == {Join(<<EchoLine, <<"r", "e", "l", "a", "y", "1", ":", "1", "\r">>, <<>>>>)}

\* thread t goes to location at of its method
Goto(t, at) == [pc EXCEPT ![t].at = at]

\* thread t calls update(), turn_on(k) or turn_off(k); Throttle passes the
\* call to update on only when the interval has elapsed
Enter(t) ==
    /\ pc[t].at = "idle"
    /\ \E m \in Calls, k \in {"1"} :
        /\ m = "update" => ~Throttled(throttle)
        /\ throttle' = IF m = "update" THEN [ran |-> TRUE, elapsed |-> 0] ELSE throttle
        /\ pc' = [pc EXCEPT ![t] = [at |-> "connect", method |-> m,
                                    device_number |-> IF m = "update" THEN "None" ELSE k]]
    /\ UNCHANGED <<ssh, states, inflight, other, actor, ghost>>

\* self._connect() and the test of self._ssh that follows it
ConnectStep(t) ==
    /\ pc[t].at = "connect"
    /\ \E login \in (IF NeedsLogin(ssh) THEN LoginOutcomes ELSE {"ok"}) :
        \E conn \in {Connect(ssh, login)} :
            /\ ssh' = conn.ssh
            /\ pc' = IF conn.ssh # "None" THEN Goto(t, "send") ELSE [pc EXCEPT ![t] = NotCalling]
    /\ UNCHANGED <<states, throttle, inflight, other, actor, ghost>>

\* self._ssh.sendline(...); AttributeError when another thread's failed login
\* has set _ssh to None in the meantime
SendStep(t) ==
    /\ pc[t].at = "send"
    /\ IF ssh = "None"
       THEN /\ pc' = [pc EXCEPT ![t] = NotCalling]
            /\ inflight' = inflight
       ELSE /\ pc' = Goto(t, "prompt")
            /\ inflight' = inflight + 1
    /\ UNCHANGED <<ssh, states, throttle, other, actor, ghost>>

\* the rest of the method once prompt() is back: the parsing loop of update,
\* the assignment of turn_on/turn_off; the thread leaves the method
Finish(t, io, response) ==
    /\ pc' = [pc EXCEPT ![t] = NotCalling]
    /\ ssh' = IF io = "EOF" THEN "dead" ELSE ssh
    /\ states' = IF io = "EOF" THEN states
                 ELSE IF pc[t].method = "update"
                      THEN ParseLines(states, Scanned[response]).states
                      ELSE SetRelay(states, pc[t].device_number,
                                    IF pc[t].method = "turn_on" THEN "1" ELSE "0").states
    /\ UNCHANGED <<throttle, other, actor, ghost>>

\* a method that goes on after sendline without calling prompt()
PromptStep_NoWait(t) ==
    /\ pc[t].at = "prompt"
    /\ inflight' = inflight
    /\ \E io \in IoOutcomes, response \in ShortResponses : Finish(t, io, response)

\* self._ssh.prompt() returns or raises, and the method runs to its end
PromptStep(t) ==
    /\ pc[t].at = "prompt"
    /\ inflight' = inflight - 1
    /\ \E io \in IoOutcomes, response \in ShortResponses : Finish(t, io, response)

ConcNext ==
    \/ \E t \in Threads : Enter(t)
    \/ \E t \in Threads : ConnectStep(t)
    \/ \E t \in Threads : SendStep(t)
    \/ \E t \in Threads : PromptStep(t)
    \/ Tick
    \/ Die

ConcSpec == Init /\ [][ConcNext]_vars

\* the threads that are in a method
Calling == {t \in Threads : pc[t].at # "idle"}

\* C18 as stated: at most one command is in flight on the session, whatever
\* the callers do.
C18_OneInFlight == inflight <= 1

\* C18 amended: the commands in flight are those of the invocations waiting
\* in prompt(), one each; so at most one is in flight as long as at most one
\* invocation is under way.
C18_OneInFlightPerInvocation ==
    /\ inflight = Cardinality({t \in Threads : pc[t].at = "prompt"})
    /\ Cardinality(Calling) <= 1 => inflight <= 1

\* one thread waits for the prompt of its command while the other is in no method
C18_Witness ==
    /\ pc["t1"].at = "prompt"
    /\ pc["t2"].at = "idle"
    /\ inflight = 1
    /\ ssh = "alive"

----------------------------------------------------------------------------
(* Two MpowerDevice objects *)

Devices == {"this", "other"}

\* the fields of MpowerDevice d
Ctl(d) == IF d = "this" THEN [ssh |-> ssh, states |-> states, throttle |-> throttle] ELSE other

\* the fields of MpowerDevice d become c; those of the other object stay
Put(d, c) ==
    IF d = "this"
    THEN /\ ssh' = c.ssh
         /\ states' = c.states
         /\ throttle' = c.throttle
         /\ other' = other
    ELSE /\ other' = c
         /\ UNCHANGED <<ssh, states, throttle>>

\* the record of the step in the two-object runs
TwoGhost == <<arg, ret, sent, logins, effective, before, ioResult, sinceCall, pc, inflight>>

\* update() of an object with fields c, under its Throttle
UpdateOf(c, login, io, response) ==
    IF Throttled(c.throttle)
    THEN c
    ELSE LET r == UpdateBody(c.ssh, c.states, login, io, response)
         IN  [ssh |-> r.ssh, states |-> r.states, throttle |-> [ran |-> TRUE, elapsed |-> 0]]

\* turn_on/turn_off of an object with fields c
TurnOf(c, state, value, device_number, login, io) ==
    LET switched == SwitchState(c.ssh, state, device_number, login, io)
    IN  [ssh |-> switched.ssh,
         states |-> IF switched.ret = "True"
                    THEN SetRelay(c.states, device_number, value).states ELSE c.states,
         throttle |-> c.throttle]

\* update() with one Throttle record for all objects of the class
TwoUpdate_SharedThrottle(d) ==
    \E login \in (IF NeedsLogin(Ctl(d).ssh) THEN LoginOutcomes ELSE {"ok"}), io \in IoOutcomes :
        \E response \in ShortResponses :
            \E c \in {UpdateOf(Ctl(d), login, io, response)} :
                /\ ssh' = IF d = "this" THEN c.ssh ELSE ssh
                /\ states' = IF d = "this" THEN c.states ELSE states
                /\ throttle' = c.throttle
                /\ other' = IF d = "this" THEN [other EXCEPT !.throttle = c.throttle] ELSE c
                /\ actor' = d
                /\ op' = "update"
                /\ loginResult' = IF Throttled(Ctl(d).throttle) THEN "None"
                                  ELSE Connect(Ctl(d).ssh, login).result
                /\ UNCHANGED TwoGhost

\* update() of MpowerDevice d
TwoUpdate(d) ==
    \E login \in (IF NeedsLogin(Ctl(d).ssh) THEN LoginOutcomes ELSE {"ok"}), io \in IoOutcomes :
        \E response \in ShortResponses :
            /\ Put(d, UpdateOf(Ctl(d), login, io, response))
            /\ actor' = d
            /\ op' = "update"
            /\ loginResult' = IF Throttled(Ctl(d).throttle) THEN "None"
                              ELSE Connect(Ctl(d).ssh, login).result
            /\ UNCHANGED TwoGhost

\* turn_on("1") / turn_off("1") of MpowerDevice d
TwoTurn(d) ==
    \E login \in (IF NeedsLogin(Ctl(d).ssh) THEN LoginOutcomes ELSE {"ok"}), io \in IoOutcomes :
        \E name \in {"turn_on", "turn_off"} :
            /\ Put(d, TurnOf(Ctl(d), IF name = "turn_on" THEN 1 ELSE 0,
                             IF name = "turn_on" THEN "1" ELSE "0", "1", login, io))
            /\ actor' = d
            /\ op' = name
            /\ loginResult' = Connect(Ctl(d).ssh, login).result
            /\ UNCHANGED TwoGhost

\* the connection of the open session of MpowerDevice d is lost
TwoDie(d) ==
    /\ Ctl(d).ssh = "alive"
    /\ Put(d, [Ctl(d) EXCEPT !.ssh = "dead"])
    /\ actor' = d
    /\ op' = "die"
    /\ loginResult' = "None"
    /\ UNCHANGED TwoGhost

\* a second passes for both objects
TwoTick ==
    /\ throttle' = [throttle EXCEPT !.elapsed = IF throttle.ran THEN Later(@) ELSE @]
    /\ other' = [other EXCEPT !.throttle.elapsed = IF other.throttle.ran THEN Later(@) ELSE @]
    /\ actor' = "None"
    /\ op' = "tick"
    /\ loginResult' = "None"
    /\ UNCHANGED <<ssh, states, TwoGhost>>

TwoNext ==
    \/ \E d \in Devices : TwoUpdate(d)
    \/ \E d \in Devices : TwoTurn(d)
    \/ \E d \in Devices : TwoDie(d)
    \/ TwoTick

TwoSpec == Init /\ [][TwoNext]_vars

\* C19: a step on one MpowerDevice, whether it succeeds, fails to connect or
\* loses its session, leaves the session, the table and the throttle record
\* of the other object as they were; in particular it does not change whether
\* an update() of the other object would be throttled.
C19_NoSharedState ==
    [][ /\ actor' = "this"
            => /\ other' = other
               /\ Throttled(other'.throttle) = Throttled(other.throttle)
        /\ actor' = "other"
            => /\ <<ssh', states', throttle'>> = <<ssh, states, throttle>>
               /\ Throttled(throttle') = Throttled(throttle) ]_vars

\* an update() of one object ran and failed to log in while the other object
\* has a session, a table entry and a running throttle interval
C19_Witness ==
    /\ actor = "this"
    /\ op = "update"
    /\ loginResult = "EOF"
    /\ throttle = [ran |-> TRUE, elapsed |-> 0]
    /\ other.ssh = "alive"
    /\ other.states # EmptyDict
    /\ other.throttle.ran /\ other.throttle.elapsed \in 1..4

====
